---- MODULE Spec2Model ----
(***************************************************************************)
(* Lock-free containers of Utilities/lockless.h:                           *)
(*   lf_array, lf_fifo, lf_hashmap, lf_spsc, lf_mpsc, lf_queue.            *)
(* Every container has its own specification (SpecArray, SpecFifo,         *)
(* SpecHashmap, SpecSpsc, SpecMpsc, SpecQueue); the variables of the other *)
(* containers stay at their initial values.  Threads interleave at the     *)
(* granularity of single shared-memory reads, writes and atomic            *)
(* read-modify-write operations.                                           *)
(***************************************************************************)
EXTENDS Integers, Sequences, FiniteSets, TLC

(***************************************************************************)
(* Bounds of the model.                                                    *)
(***************************************************************************)
\* the ring cursors are CursorBits-bit unsigned integers (32 in the source)
CursorBits == 3
\* lf_spsc / lf_mpsc template parameter N is 2^RingLog
RingLog == 1
\* number of pushes the single producer of the lf_spsc run attempts to commit
MaxPush == 9

RECURSIVE Pow2(_)
Pow2(n) == IF n = 0 THEN 1 ELSE 2 * Pow2(n - 1)

\* 2^w: unsigned arithmetic on the cursors is modulo Wrap
Wrap == Pow2(CursorBits)
\* a ring size that does not divide 2^w
RingNotPowerOfTwo == Pow2(RingLog) + 1

\* template parameter N of lf_spsc<T, N> / lf_mpsc<T, N>
RingN == Pow2(RingLog)
\* static_assert(N && (1u << 31) % N == 0): N divides 2^(w-1)
RingSizeValid == RingN > 0 /\ Pow2(CursorBits - 1) % RingN = 0

\* unsigned subtraction / addition of cursors
USub(a, b) == (a - b) % Wrap
UAdd(a, b) == (a + b) % Wrap

\* the null pointer (block, slot and node names are natural numbers)
Null == -1
\* T{}: the value of a default-initialized ring slot
DefaultT == 0

VARIABLES
  \* ---- lf_spsc members (shared with lf_mpsc, which derives from it)
  m_push, m_pop, m_data,
  \* ---- the consumer thread (try_pop, size/operator[]/end_pop)
  cpc, cpos, cout, cres, popped,
  \* ---- the lf_spsc producer thread (try_push, operator T* / end_push)
  ppc, ppos, pval, pptr, pres, pushed,
  \* ---- lf_mpsc: the reservation word and the producer threads
  m_lock, qpc, qold, qpos, qptr, qitem, qvalue, qtmp, qret, qdone, accepted,
  \* ---- lf_array: the block chain and the threads inside operator []
  \* (amax: the largest index any call has been made with)
  m_next, nalloc, apc, aidx, arem, acur, anew, aptr, aret, amax,
  \* ---- lf_hashmap: the pairs of m_data, m_default_key_data, the threads inside
  \* operator [] and the references it has returned
  pair_key, pair_value, m_default_key_data, hpc, hkey, hpos, href,
  \* ---- lf_fifo: the control word, the ranges push_begin has handed out (all of
  \* them, and where the ones handed out since the last reset start) and the last
  \* call with its argument, the word it found and its result
  m_ctrl, granted, gen_start, last_call,
  \* ---- lf_queue: the head, the items on the heap (link, payload, free or in use),
  \* the threads inside push / pop_all / apply, and the chains the drains obtained
  m_head, m_link, item_data, free_items, kpc, kold, kitem, kprev, kpushed, kfailed, obtained,
  \* ---- lf_value: the cell's head, the m_head and m_data of the cell (node 0) and
  \* of the heap nodes, the threads inside assign / get / first with their last
  \* result, the destructor, and the order in which the head CASes succeeded
  val_head, val_prev, val_data, val_alloc, vpc, vval, vold, vres, dpc, dptr, freed, cas_order

ringVars == <<m_push, m_pop, m_data>>
consVars == <<cpc, cpos, cout, cres, popped>>
prodVars == <<ppc, ppos, pval, pptr, pres, pushed>>

mpscVars == <<m_lock, qpc, qold, qpos, qptr, qitem, qvalue, qtmp, qret, qdone, accepted>>
arrVars == <<m_next, nalloc, apc, aidx, arem, acur, anew, aptr, aret, amax>>

hashVars == <<pair_key, pair_value, m_default_key_data, hpc, hkey, hpos, href>>

fifoVars == <<m_ctrl, granted, gen_start, last_call>>

queueVars == <<m_head, m_link, item_data, free_items, kpc, kold, kitem, kprev,
               kpushed, kfailed, obtained>>

valueVars == <<val_head, val_prev, val_data, val_alloc, vpc, vval, vold, vres, dpc, dptr,
               freed, cas_order>>

vars == <<ringVars, consVars, prodVars, mpscVars, arrVars, hashVars, fifoVars, queueVars,
          valueVars>>

\* the containers that are not rings
notRing == <<arrVars, hashVars, fifoVars, queueVars, valueVars>>
\* everything that is not part of an lf_array
notArray == <<ringVars, consVars, prodVars, mpscVars, fifoVars, queueVars, valueVars>>
\* everything that is neither part of an lf_array nor of the lf_hashmap on top of it
notHash == <<ringVars, consVars, prodVars, mpscVars, fifoVars, queueVars, valueVars>>
\* everything that is not part of the lf_fifo counters
notFifo == <<ringVars, consVars, prodVars, mpscVars, arrVars, hashVars, queueVars, valueVars>>
\* everything that is not part of the lf_queue
notQueue == <<ringVars, consVars, prodVars, mpscVars, arrVars, hashVars, fifoVars, valueVars>>
\* everything that is not part of the lf_value
notValue == <<ringVars, consVars, prodVars, mpscVars, arrVars, hashVars, fifoVars, queueVars>>
\* everything that is not part of the lf_spsc run
notSpsc == <<mpscVars, notRing>>
\* everything that is not part of the lf_mpsc run
notMpsc == <<prodVars, notRing>>

(***************************************************************************)
(* lf_spsc                                                                 *)
(***************************************************************************)
\* size(): m_push - m_pop, unsigned
size == USub(m_push, m_pop)

\* RingFull with the comparison off by one
RingFullOffByOne(pos, pop) == USub(pos, pop) > RingN

\* try_push / operator T*: "if (pos - m_pop >= N)": the ring is full
RingFull(pos, pop) == USub(pos, pop) >= RingN

\* end_push: "if (pos - m_pop < N)"
CanEndPush(pos, pop) == USub(pos, pop) < RingN

\* RingEmpty with "<" for "<=": never true of an unsigned difference
RingEmptyStrict(push, pos) == USub(push, pos) < 0

\* try_pop: "if (m_push - pos <= 0)": the ring is empty (unsigned compare)
RingEmpty(push, pos) == USub(push, pos) <= 0

\* end_pop: "if (m_push - pos > 0)"
CanEndPop(push, pos) == USub(push, pos) > 0

\* m_data[pos % N]
Slot(pos) == pos % RingN

RingInit ==
  /\ m_push = 0
  /\ m_pop = 0
  /\ m_data = [i \in 0..(RingN - 1) |-> DefaultT]

ConsInit ==
  /\ cpc = "idle"
  /\ cpos = 0
  /\ cout = DefaultT
  /\ cres = "none"
  /\ popped = <<>>

ProdInit ==
  /\ ppc = "idle"
  /\ ppos = 0
  /\ pval = DefaultT
  /\ pptr = Null
  /\ pres = "none"
  /\ pushed = <<>>

\* ---------------------------------------------------------------- producer
\* try_push: const std::uint32_t pos = m_push;
TryPushBegin ==
  /\ ppc = "idle"
  /\ Len(pushed) < MaxPush
  /\ ppc' = "tp_check"
  /\ ppos' = m_push
  /\ pval' = Len(pushed) + 1
  /\ pres' = "none"
  /\ UNCHANGED <<pptr, pushed, ringVars, consVars, notSpsc>>

\* try_push: if (pos - m_pop >= N) return false;
TryPushCheck ==
  /\ ppc = "tp_check"
  /\ IF RingFull(ppos, m_pop)
       THEN /\ ppc' = "idle"
            /\ pres' = "false"
       ELSE /\ ppc' = "tp_write"
            /\ pres' = pres
  /\ UNCHANGED <<ppos, pval, pptr, pushed, ringVars, consVars, notSpsc>>

\* try_push: m_data[pos % N] = data;
TryPushWrite ==
  /\ ppc = "tp_write"
  /\ m_data' = [m_data EXCEPT ![Slot(ppos)] = pval]
  /\ ppc' = "tp_commit"
  /\ UNCHANGED <<ppos, pval, pptr, pres, pushed, m_push, m_pop, consVars, notSpsc>>

\* try_push: m_push = pos + 1; return true;
TryPushCommit ==
  /\ ppc = "tp_commit"
  /\ m_push' = UAdd(ppos, 1)
  /\ pushed' = Append(pushed, pval)
  /\ ppc' = "idle"
  /\ pres' = "true"
  /\ UNCHANGED <<ppos, pval, pptr, m_pop, m_data, consVars, notSpsc>>

\* operator T*: const std::uint32_t pos = m_push;
GetPushPtrBegin ==
  /\ ppc = "idle"
  /\ Len(pushed) < MaxPush
  /\ ppc' = "gp_check"
  /\ ppos' = m_push
  /\ pval' = Len(pushed) + 1
  /\ pres' = "none"
  /\ UNCHANGED <<pptr, pushed, ringVars, consVars, notSpsc>>

\* operator T*: if (pos - m_pop >= N) return nullptr; return m_data + (pos % N);
GetPushPtrCheck ==
  /\ ppc = "gp_check"
  /\ IF RingFull(ppos, m_pop)
       THEN /\ ppc' = "idle"
            /\ pptr' = Null
            /\ pres' = "false"
       ELSE /\ ppc' = "gp_store"
            /\ pptr' = Slot(ppos)
            /\ pres' = pres
  /\ UNCHANGED <<ppos, pval, pushed, ringVars, consVars, notSpsc>>

\* the caller stores through the returned pointer
GetPushPtrStore ==
  /\ ppc = "gp_store"
  /\ m_data' = [m_data EXCEPT ![pptr] = pval]
  /\ ppc' = "ep_begin"
  /\ UNCHANGED <<ppos, pval, pptr, pres, pushed, m_push, m_pop, consVars, notSpsc>>

\* end_push: const std::uint32_t pos = m_push;
EndPushBegin ==
  /\ ppc = "ep_begin"
  /\ ppos' = m_push
  /\ ppc' = "ep_check"
  /\ UNCHANGED <<pval, pptr, pres, pushed, ringVars, consVars, notSpsc>>

\* end_push: if (pos - m_pop < N) { m_push = pos + 1; }
EndPushCheck ==
  /\ ppc = "ep_check"
  /\ IF CanEndPush(ppos, m_pop)
       THEN /\ ppc' = "ep_commit"
            /\ pres' = pres
       ELSE /\ ppc' = "idle"
            /\ pres' = "dropped"
  /\ UNCHANGED <<ppos, pval, pptr, pushed, ringVars, consVars, notSpsc>>

EndPushCommit ==
  /\ ppc = "ep_commit"
  /\ m_push' = UAdd(ppos, 1)
  /\ pushed' = Append(pushed, pval)
  /\ ppc' = "idle"
  /\ pres' = "true"
  /\ UNCHANGED <<ppos, pval, pptr, m_pop, m_data, consVars, notSpsc>>

\* ---------------------------------------------------------------- consumer
\* try_pop: const std::uint32_t pos = m_pop;
TryPopBegin ==
  /\ cpc = "idle"
  /\ cpc' = "pop_check"
  /\ cpos' = m_pop
  /\ cres' = "none"
  /\ UNCHANGED <<cout, popped, ringVars, prodVars, mpscVars, notRing>>

\* try_pop: if (m_push - pos <= 0) return false;
TryPopCheck ==
  /\ cpc = "pop_check"
  /\ IF RingEmpty(m_push, cpos)
       THEN /\ cpc' = "idle"
            /\ cres' = "false"
       ELSE /\ cpc' = "pop_read"
            /\ cres' = cres
  /\ UNCHANGED <<cpos, cout, popped, ringVars, prodVars, mpscVars, notRing>>

\* try_pop: out = std::move(m_data[pos % N]);
TryPopRead ==
  /\ cpc = "pop_read"
  /\ cout' = m_data[Slot(cpos)]
  /\ cpc' = "pop_commit"
  /\ UNCHANGED <<cpos, cres, popped, ringVars, prodVars, mpscVars, notRing>>

\* try_pop: m_pop = pos + 1; return true;
TryPopCommit ==
  /\ cpc = "pop_commit"
  /\ m_pop' = UAdd(cpos, 1)
  /\ popped' = Append(popped, cout)
  /\ cpc' = "idle"
  /\ cres' = "true"
  /\ UNCHANGED <<cpos, cout, m_push, m_data, prodVars, mpscVars, notRing>>

\* size() > 0, then operator [](0): return m_data[(m_pop + i) % N];
PeekFront ==
  /\ cpc = "idle"
  /\ size > 0
  /\ cout' = m_data[Slot(UAdd(m_pop, 0))]
  /\ cpc' = "endpop_begin"
  /\ cres' = "none"
  /\ UNCHANGED <<cpos, popped, ringVars, prodVars, mpscVars, notRing>>

\* end_pop: const std::uint32_t pos = m_pop;
EndPopBegin ==
  /\ cpc = "endpop_begin"
  /\ cpos' = m_pop
  /\ cpc' = "endpop_check"
  /\ UNCHANGED <<cout, cres, popped, ringVars, prodVars, mpscVars, notRing>>

\* end_pop: if (m_push - pos > 0) { m_pop = pos + 1; }
EndPopCheck ==
  /\ cpc = "endpop_check"
  /\ IF CanEndPop(m_push, cpos)
       THEN /\ m_pop' = UAdd(cpos, 1)
            /\ popped' = Append(popped, cout)
            /\ cres' = "true"
       ELSE /\ UNCHANGED <<m_pop, popped>>
            /\ cres' = "false"
  /\ cpc' = "idle"
  /\ UNCHANGED <<cpos, cout, m_push, m_data, prodVars, mpscVars, notRing>>

(***************************************************************************)
(* lf_mpsc                                                                 *)
(***************************************************************************)
\* number of producer threads (T) and values each producer pushes (M)
NumProducers == 2
PerProducer == 2
\* values the consumer of the lf_mpsc run pops at most
MaxPops == 4

Producers == 1..NumProducers

\* enum : std::uint64_t { c_ack = 1ull << 0, c_rel = 1ull << 32 }: the low half of
\* m_lock counts reservations, the high half completed writes (the halves are
\* CursorBits wide here)
c_ack == 1
c_rel == Wrap

\* the two halves of a reservation word
AckOf(word) == word % c_rel
RelOf(word) == word \div c_rel

\* the k-th value pushed by producer t (distinct, never DefaultT)
ItemOf(t, k) == (t - 1) * PerProducer + k

\* operator T*: "if (old % N >= N || pos - m_pop >= N - (old % N))"
ReserveFails(old, pos, pop) ==
  \/ old % RingN >= RingN
  \/ USub(pos, pop) >= RingN - (old % RingN)

\* operator T*: "return m_data + ((pos + old) % N)"
ReservedSlot(pos, old) == (pos + old) % RingN

\* release: "if (value && value % c_rel == value / c_rel)"
ReleaseReady(value) == value # 0 /\ value % c_rel = value \div c_rel

\* the reset written as a plain store of zero
ResetLockAlways(cur, value) == 0

\* m_lock.compare_and_swap_test(value, 0): the word afterwards
CasLock(cur, value) == IF cur = value THEN 0 ELSE cur

MpscInit ==
  /\ m_lock = 0
  /\ qpc = [t \in Producers |-> "idle"]
  /\ qold = [t \in Producers |-> 0]
  /\ qpos = [t \in Producers |-> 0]
  /\ qptr = [t \in Producers |-> Null]
  /\ qitem = [t \in Producers |-> DefaultT]
  /\ qvalue = [t \in Producers |-> 0]
  /\ qtmp = [t \in Producers |-> 0]
  /\ qret = [t \in Producers |-> "none"]
  /\ qdone = [t \in Producers |-> 0]
  /\ accepted = {}

\* try_push -> operator T*: const std::uint64_t old = m_lock.fetch_add(c_ack);
Reserve(t) ==
  /\ qpc[t] = "idle"
  /\ qdone[t] < PerProducer
  /\ qold' = [qold EXCEPT ![t] = m_lock]
  /\ m_lock' = m_lock + c_ack
  /\ qitem' = [qitem EXCEPT ![t] = ItemOf(t, qdone[t] + 1)]
  /\ qret' = [qret EXCEPT ![t] = "none"]
  /\ qpc' = [qpc EXCEPT ![t] = "read_push"]
  /\ UNCHANGED <<qpos, qptr, qvalue, qtmp, qdone, accepted, ringVars, consVars, notMpsc>>

\* operator T*: const std::uint32_t pos = m_push;
ReserveReadPush(t) ==
  /\ qpc[t] = "read_push"
  /\ qpos' = [qpos EXCEPT ![t] = m_push]
  /\ qpc' = [qpc EXCEPT ![t] = "check"]
  /\ UNCHANGED <<m_lock, qold, qptr, qitem, qvalue, qtmp, qret, qdone, accepted,
                 ringVars, consVars, notMpsc>>

\* operator T*: the capacity check (reads m_pop), then the slot or the roll-back
ReserveCheck(t) ==
  /\ qpc[t] = "check"
  /\ IF ReserveFails(qold[t], qpos[t], m_pop)
       THEN /\ qpc' = [qpc EXCEPT ![t] = "rollback"]
            /\ qptr' = [qptr EXCEPT ![t] = Null]
       ELSE /\ qpc' = [qpc EXCEPT ![t] = "store"]
            /\ qptr' = [qptr EXCEPT ![t] = ReservedSlot(qpos[t], qold[t])]
  /\ UNCHANGED <<m_lock, qold, qpos, qitem, qvalue, qtmp, qret, qdone, accepted,
                 ringVars, consVars, notMpsc>>

\* operator T*: release(m_lock.sub_fetch(c_ack)); return nullptr;
\* (the test at the top of release reads only its argument)
ReserveRollback(t) ==
  /\ qpc[t] = "rollback"
  /\ m_lock' = m_lock - c_ack
  /\ qvalue' = [qvalue EXCEPT ![t] = m_lock - c_ack]
  /\ qret' = [qret EXCEPT ![t] = "false"]
  /\ qpc' = [qpc EXCEPT ![t] =
               IF ReleaseReady(m_lock - c_ack) THEN "rel_read" ELSE "return"]
  /\ UNCHANGED <<qold, qpos, qptr, qitem, qtmp, qdone, accepted,
                 ringVars, consVars, notMpsc>>

\* try_push: *ptr = std::forward<T2>(data);
PushStore(t) ==
  /\ qpc[t] = "store"
  /\ m_data' = [m_data EXCEPT ![qptr[t]] = qitem[t]]
  /\ qpc' = [qpc EXCEPT ![t] = "end_push"]
  /\ UNCHANGED <<m_push, m_pop, m_lock, qold, qpos, qptr, qitem, qvalue, qtmp, qret,
                 qdone, accepted, consVars, notMpsc>>

\* end_push: release(m_lock.add_fetch(c_rel));
EndPush(t) ==
  /\ qpc[t] = "end_push"
  /\ m_lock' = m_lock + c_rel
  /\ qvalue' = [qvalue EXCEPT ![t] = m_lock + c_rel]
  /\ qret' = [qret EXCEPT ![t] = "true"]
  /\ qpc' = [qpc EXCEPT ![t] =
               IF ReleaseReady(m_lock + c_rel) THEN "rel_read" ELSE "return"]
  /\ UNCHANGED <<qold, qpos, qptr, qitem, qtmp, qdone, accepted,
                 ringVars, consVars, notMpsc>>

\* release: "m_push += value % c_rel" on the volatile, non-atomic m_push: the load
ReleaseReadPush(t) ==
  /\ qpc[t] = "rel_read"
  /\ qtmp' = [qtmp EXCEPT ![t] = m_push]
  /\ qpc' = [qpc EXCEPT ![t] = "rel_write"]
  /\ UNCHANGED <<m_lock, qold, qpos, qptr, qitem, qvalue, qret, qdone, accepted,
                 ringVars, consVars, notMpsc>>

\* release: "m_push += value % c_rel": the store
ReleaseWritePush(t) ==
  /\ qpc[t] = "rel_write"
  /\ m_push' = UAdd(qtmp[t], qvalue[t] % c_rel)
  /\ qpc' = [qpc EXCEPT ![t] = "rel_cas"]
  /\ UNCHANGED <<m_pop, m_data, m_lock, qold, qpos, qptr, qitem, qvalue, qtmp, qret,
                 qdone, accepted, consVars, notMpsc>>

\* release: m_lock.compare_and_swap_test(value, 0);
ReleaseCas(t) ==
  /\ qpc[t] = "rel_cas"
  /\ m_lock' = CasLock(m_lock, qvalue[t])
  /\ qpc' = [qpc EXCEPT ![t] = "return"]
  /\ UNCHANGED <<qold, qpos, qptr, qitem, qvalue, qtmp, qret, qdone, accepted,
                 ringVars, consVars, notMpsc>>

\* try_push returns: true after end_push, false after a failed reservation (the
\* producer then retries the same value); the locals of the call (old, pos, the
\* pointer, release's value) go out of scope
PushReturn(t) ==
  /\ qpc[t] = "return"
  /\ qpc' = [qpc EXCEPT ![t] = "idle"]
  /\ IF qret[t] = "true"
       THEN /\ qdone' = [qdone EXCEPT ![t] = qdone[t] + 1]
            /\ accepted' = accepted \cup {qitem[t]}
       ELSE UNCHANGED <<qdone, accepted>>
  /\ qold' = [qold EXCEPT ![t] = 0]
  /\ qpos' = [qpos EXCEPT ![t] = 0]
  /\ qptr' = [qptr EXCEPT ![t] = Null]
  /\ qvalue' = [qvalue EXCEPT ![t] = 0]
  /\ qtmp' = [qtmp EXCEPT ![t] = 0]
  /\ UNCHANGED <<m_lock, qitem, qret, ringVars, consVars, notMpsc>>

(***************************************************************************)
(* lf_array                                                                *)
(***************************************************************************)
\* number of threads calling into an lf_array or an lf_hashmap
NumThreads == 2
\* template parameter N of the lf_array of the lf_array run
ArrN == 2
\* largest index passed to lf_array::operator []
MaxIndex == 4

Threads == 1..NumThreads

\* Block 0 is the lf_array object itself; blocks 1, 2, ... are created by "new
\* lf_array".  A call allocates at most once per level it descends and every level
\* is created once, so these names suffice for any run.
BlockIds == 0..(MaxIndex \div ArrN + NumThreads)

\* no element reference
NoRef == <<Null, Null>>

\* compare_and_swap written as a plain store
StoreNext(cur, new) == new

\* ptr->m_next.compare_and_swap(nullptr, _new): the value of m_next afterwards
CasNext(cur, new) == IF cur = Null THEN new ELSE cur

\* install loop that gives up when its CAS fails
InstallGiveUp(found) == Null

\* "ptr = ptr->m_next.compare_and_swap(nullptr, _new)": the loop goes on with the
\* block the CAS found, and ends when it found none
InstallNext(found) == found

\* operator []: a block is created whenever the call has to go deeper
NeedsBlockAlways(next) == TRUE

\* operator []: "else if (UNLIKELY(!m_next))": a block is created when there is none
NeedsBlock(next) == next = Null

ArrayInit ==
  /\ m_next = [b \in BlockIds |-> Null]
  /\ nalloc = 0
  /\ apc = [t \in Threads |-> "idle"]
  /\ aidx = [t \in Threads |-> 0]
  /\ arem = [t \in Threads |-> 0]
  /\ acur = [t \in Threads |-> 0]
  /\ anew = [t \in Threads |-> Null]
  /\ aptr = [t \in Threads |-> Null]
  /\ aret = [t \in Threads |-> NoRef]
  /\ amax = 0

\* a call of operator [](index) on the lf_array object
ArrayCall(t, index) ==
  /\ apc[t] = "idle"
  /\ apc' = [apc EXCEPT ![t] = "enter"]
  /\ aidx' = [aidx EXCEPT ![t] = index]
  /\ arem' = [arem EXCEPT ![t] = index]
  /\ acur' = [acur EXCEPT ![t] = 0]
  /\ aret' = [aret EXCEPT ![t] = NoRef]
  /\ amax' = IF index > amax THEN index ELSE amax
  /\ UNCHANGED <<m_next, nalloc, anew, aptr, hashVars, notArray>>

\* operator [] on block acur[t]: "if (index < N) return m_data[index];
\* else if (!m_next) { _new = new lf_array, ptr = this; ... }"
ArrayEnter(t, n) ==
  /\ apc[t] = "enter"
  /\ IF arem[t] < n
       THEN /\ aret' = [aret EXCEPT ![t] = <<acur[t], arem[t]>>]
            /\ apc' = [apc EXCEPT ![t] = "ret"]
            /\ UNCHANGED <<nalloc, anew, aptr>>
       ELSE IF NeedsBlock(m_next[acur[t]])
         THEN /\ nalloc' = nalloc + 1
              /\ anew' = [anew EXCEPT ![t] = nalloc + 1]
              /\ aptr' = [aptr EXCEPT ![t] = acur[t]]
              /\ apc' = [apc EXCEPT ![t] = "install"]
              /\ aret' = aret
         ELSE /\ apc' = [apc EXCEPT ![t] = "deref"]
              /\ UNCHANGED <<nalloc, anew, aptr, aret>>
  /\ UNCHANGED <<m_next, aidx, arem, acur, amax, hashVars, notArray>>

\* "for (...; ptr;) ptr = ptr->m_next.compare_and_swap(nullptr, _new);": one
\* iteration; compare_and_swap returns the old value
ArrayInstall(t) ==
  /\ apc[t] = "install"
  /\ m_next' = [m_next EXCEPT ![aptr[t]] = CasNext(m_next[aptr[t]], anew[t])]
  /\ aptr' = [aptr EXCEPT ![t] = InstallNext(m_next[aptr[t]])]
  /\ apc' = [apc EXCEPT ![t] =
               IF InstallNext(m_next[aptr[t]]) = Null THEN "deref" ELSE "install"]
  /\ UNCHANGED <<nalloc, aidx, arem, acur, anew, aret, amax, hashVars, notArray>>

\* "return (*m_next)[index - N];"
ArrayDeref(t, n) ==
  /\ apc[t] = "deref"
  /\ acur' = [acur EXCEPT ![t] = m_next[acur[t]]]
  /\ arem' = [arem EXCEPT ![t] = arem[t] - n]
  /\ apc' = [apc EXCEPT ![t] = "enter"]
  /\ UNCHANGED <<m_next, nalloc, aidx, anew, aptr, aret, amax, hashVars, notArray>>

\* the outermost call returns the element reference <<block, slot>>, which the
\* caller holds until its next call
ArrayReturn(t) ==
  /\ apc[t] = "ret"
  /\ apc' = [apc EXCEPT ![t] = "idle"]
  /\ arem' = [arem EXCEPT ![t] = 0]
  /\ acur' = [acur EXCEPT ![t] = 0]
  /\ anew' = [anew EXCEPT ![t] = Null]
  /\ aptr' = [aptr EXCEPT ![t] = Null]
  /\ UNCHANGED <<m_next, nalloc, aidx, aret, amax, hashVars, notArray>>

(***************************************************************************)
(* lf_hashmap                                                              *)
(* m_data[pos] is lf_array::operator [] (SpecArray), which resolves an     *)
(* index to the same element at any time and from any thread; a pair of    *)
(* the hashmap is therefore named by its index in m_data.                  *)
(***************************************************************************)
\* template parameter Size of lf_hashmap (the block size of its lf_array)
HashSize == 1
\* the keys are 1..NumKeys; K{} = 0 is the default-constructed key ("no key")
NumKeys == 2

DefaultKey == 0
Keys == DefaultKey..NumKeys

\* Hash{}(key), for the default Hash = value_hash<K> of an integral key
Hash(key) == key

\* a call claims at most one pair, and a key is claimed a further time only by a
\* call that was under way when it was first claimed: no probe goes deeper
MaxProbeDepth == NumKeys * NumThreads

\* the indices of the pairs of m_data that a probe can reach
Pairs == 0..(HashSize * MaxProbeDepth + HashSize - 1)
\* the reference to m_default_key_data
DefaultRef == -2

\* the value a caller stores through the reference operator [](key) returned to
\* it: it names the key, and differs from the T{} of a fresh pair
ValueFor(key) == key + 1

\* the CAS of a pair's key taken to have succeeded whatever it found
CasKeyIgnored(cur) == TRUE

\* pair.key.compare_and_swap_test(K{}, key): whether it succeeds
CasKeySucceeds(cur) == cur = DefaultKey

\* "pair.key == key": the optimistic check
KeyMatches(cur, key) == cur = key

HashInit ==
  /\ pair_key = [e \in Pairs |-> DefaultKey]
  /\ pair_value = [e \in Pairs |-> DefaultT]
  /\ m_default_key_data = DefaultT
  /\ hpc = [t \in Threads |-> "idle"]
  /\ hkey = [t \in Threads |-> DefaultKey]
  /\ hpos = [t \in Threads |-> 0]
  /\ href = [t \in Threads |-> Null]

\* The caller of operator [] stores ValueFor(key) through the reference as soon as
\* it has it, and holds the reference until its next call; operator [] itself
\* never reads or writes a value.
\* operator [](key): "if (key == K{}) return m_default_key_data;" and otherwise
\* the first probe, "pos = Hash{}(key) % Size; auto& pair = m_data[pos];"
HashCall(t, key) ==
  /\ hpc[t] = "idle"
  /\ hkey' = [hkey EXCEPT ![t] = key]
  /\ IF key = DefaultKey
       THEN /\ href' = [href EXCEPT ![t] = DefaultRef]
            /\ m_default_key_data' = ValueFor(key)
            /\ hpos' = [hpos EXCEPT ![t] = 0]
            /\ hpc' = hpc
       ELSE /\ hpc' = [hpc EXCEPT ![t] = "check"]
            /\ hpos' = [hpos EXCEPT ![t] = Hash(key) % HashSize]
            /\ href' = [href EXCEPT ![t] = Null]
            /\ m_default_key_data' = m_default_key_data
  /\ UNCHANGED <<pair_key, pair_value, arrVars, notHash>>

\* "if (pair.key == key ...) return pair.value;"
HashCheckKey(t) ==
  /\ hpc[t] = "check"
  /\ IF KeyMatches(pair_key[hpos[t]], hkey[t])
       THEN /\ href' = [href EXCEPT ![t] = hpos[t]]
            /\ pair_value' = [pair_value EXCEPT ![hpos[t]] = ValueFor(hkey[t])]
            /\ hpc' = [hpc EXCEPT ![t] = "idle"]
       ELSE /\ hpc' = [hpc EXCEPT ![t] = "cas"]
            /\ UNCHANGED <<href, pair_value>>
  /\ UNCHANGED <<pair_key, m_default_key_data, hkey, hpos, arrVars, notHash>>

\* "... || pair.key.compare_and_swap_test(K{}, key)) return pair.value;" and, when
\* the CAS fails, the next probe "pos += Size; auto& pair = m_data[pos];"
HashCasKey(t) ==
  /\ hpc[t] = "cas"
  /\ pair_key' = [pair_key EXCEPT ![hpos[t]] = IF @ = DefaultKey THEN hkey[t] ELSE @]
  /\ IF CasKeySucceeds(pair_key[hpos[t]])
       THEN /\ href' = [href EXCEPT ![t] = hpos[t]]
            /\ pair_value' = [pair_value EXCEPT ![hpos[t]] = ValueFor(hkey[t])]
            /\ hpc' = [hpc EXCEPT ![t] = "idle"]
            /\ hpos' = hpos
       ELSE /\ hpc' = [hpc EXCEPT ![t] = "check"]
            /\ hpos' = [hpos EXCEPT ![t] = hpos[t] + HashSize]
            /\ UNCHANGED <<href, pair_value>>
  /\ UNCHANGED <<m_default_key_data, hkey, arrVars, notHash>>

(***************************************************************************)
(* lf_fifo: the counters (the elements live in the lf_array base)          *)
(* fetch_add on the push half and atomic_op on the whole word are single   *)
(* atomic steps; the u32 counters are CursorBits wide.                     *)
(***************************************************************************)
\* largest count passed to push_begin / pop_end
MaxCount == 2
\* number of push_begin calls in a run
MaxGrants == 3

Counts == 0..MaxCount

\* push_begin returning the advanced position (add_fetch for fetch_add)
PushBeginResultNew(ctrl, count) == (ctrl.push + count) % Wrap

\* push_begin: the result of fetch_add(count) is the position before the add
PushBeginResult(ctrl, count) == ctrl.push

\* push_begin: fetch_add(count) on the push half of the word
PushBeginCtrl(ctrl, count) == [ctrl EXCEPT !.push = (ctrl.push + count) % Wrap]

\* pop_end clearing only the pop position
PopEndCtrlKeepsPush(ctrl, count) ==
  LET pop == (ctrl.pop + count) % Wrap
  IN  IF pop = ctrl.push THEN [push |-> ctrl.push, pop |-> 0]
                         ELSE [push |-> ctrl.push, pop |-> pop]

\* pop_end: the lambda given to atomic_op: "ctrl.pop += count; if (ctrl.pop ==
\* ctrl.push) { ctrl.push = 0; ctrl.pop = 0; }"
PopEndCtrl(ctrl, count) ==
  LET pop == (ctrl.pop + count) % Wrap
  IN  IF pop = ctrl.push THEN [push |-> 0, pop |-> 0]
                         ELSE [push |-> ctrl.push, pop |-> pop]

\* pop_end: whether the lambda takes the "Clean if possible" branch
PopEndCleans(ctrl, count) == (ctrl.pop + count) % Wrap = ctrl.push

FifoInit ==
  /\ m_ctrl = [push |-> 0, pop |-> 0]
  /\ granted = <<>>
  /\ gen_start = 1
  /\ last_call = [op |-> "none", count |-> 0, before |-> [push |-> 0, pop |-> 0],
                  result |-> 0, cleaned |-> FALSE]

\* u32 push_begin(u32 count)
PushBegin(count) ==
  /\ Len(granted) < MaxGrants
  /\ m_ctrl' = PushBeginCtrl(m_ctrl, count)
  /\ granted' = Append(granted, <<PushBeginResult(m_ctrl, count), count>>)
  /\ last_call' = [op |-> "push_begin", count |-> count, before |-> m_ctrl,
                   result |-> PushBeginResult(m_ctrl, count), cleaned |-> FALSE]
  /\ UNCHANGED <<gen_start, notFifo>>

\* u32 pop_end(u32 count): "return ctrl.pop;" is the result
PopEnd(count) ==
  /\ m_ctrl' = PopEndCtrl(m_ctrl, count)
  /\ gen_start' = IF PopEndCleans(m_ctrl, count) THEN Len(granted) + 1 ELSE gen_start
  /\ last_call' = [op |-> "pop_end", count |-> count, before |-> m_ctrl,
                   result |-> PopEndCtrl(m_ctrl, count).pop,
                   cleaned |-> PopEndCleans(m_ctrl, count)]
  /\ UNCHANGED <<granted, notFifo>>

(***************************************************************************)
(* lf_queue and lf_item                                                    *)
(* Every thread may push and may drain (pop_all or apply).                 *)
(***************************************************************************)
\* number of items pushed in a run, by all threads together
MaxItems == 3

\* the heap: as many item addresses as items can be alive at once; a freed address
\* is handed out again by a later "new lf_item"
Items == 1..MaxItems

\* the k-th item pushed by thread t (its payload), and back
Payload(t, k) == (t - 1) * MaxItems + k
PusherOf(v) == ((v - 1) \div MaxItems) + 1
SeqNoOf(v) == ((v - 1) % MaxItems) + 1

\* the payloads of the chain that starts at item `head`, following m_link
RECURSIVE ChainOf(_, _)
ChainOf(head, link) ==
  IF head = Null THEN <<>> ELSE <<item_data[head]>> \o ChainOf(link[head], link)

\* the items of the chain that starts at item `head`
RECURSIVE ChainItems(_, _)
ChainItems(head, link) ==
  IF head = Null THEN {} ELSE {head} \cup ChainItems(link[head], link)

\* reverse: a drain that reads the head and leaves it in place
ExchangeKeepsHead(head) == head

\* reverse: "m_head.exchange(nullptr)": the head after the exchange
ExchangeHead(head) == Null

\* push: a compare_exchange that never succeeds
CasHeadNeverSucceeds(head, old) == FALSE

\* push: "m_head.compare_exchange(old, item)" succeeds when the head is still the
\* one this push observed last
CasHeadSucceeds(head, old) == head = old

\* push: a failed CAS that leaves the item linked to the head it read first
RelinkStale(old, observed) == old

\* push: "while (!m_head.compare_exchange(old, item)) { item->m_link = old; }":
\* compare_exchange stores the head it found into old, and the item is linked to it
Relink(old, observed) == observed

QueueInit ==
  /\ m_head = Null
  /\ m_link = [n \in Items |-> Null]
  /\ item_data = [n \in Items |-> DefaultT]
  /\ free_items = Items
  /\ kpc = [t \in Threads |-> "idle"]
  /\ kold = [t \in Threads |-> Null]
  /\ kitem = [t \in Threads |-> Null]
  /\ kprev = [t \in Threads |-> Null]
  /\ kpushed = [t \in Threads |-> 0]
  /\ kfailed = [t \in Threads |-> FALSE]
  /\ obtained = <<>>

\* the pushes begun so far, by all threads
PushesBegun ==
  Cardinality({<<t, k>> \in Threads \X (1..MaxItems) : k <= kpushed[t]})
    + Cardinality({t \in Threads : kpc[t] \in {"alloc", "cas"}})

AllPushed ==
  /\ PushesBegun = MaxItems
  /\ \A t \in Threads : kpc[t] \notin {"alloc", "cas"}

\* push: lf_item<T>* old = m_head.load();
PushLoad(t) ==
  /\ kpc[t] = "idle"
  /\ PushesBegun < MaxItems
  /\ kold' = [kold EXCEPT ![t] = m_head]
  /\ kpc' = [kpc EXCEPT ![t] = "alloc"]
  /\ UNCHANGED <<m_head, m_link, item_data, free_items, kitem, kprev, kpushed, kfailed,
                 obtained, notQueue>>

\* push: lf_item<T>* item = new lf_item<T>(old, args...);
PushAlloc(t, n) ==
  /\ kpc[t] = "alloc"
  /\ n \in free_items
  /\ free_items' = free_items \ {n}
  /\ m_link' = [m_link EXCEPT ![n] = kold[t]]
  /\ item_data' = [item_data EXCEPT ![n] = Payload(t, kpushed[t] + 1)]
  /\ kitem' = [kitem EXCEPT ![t] = n]
  /\ kpc' = [kpc EXCEPT ![t] = "cas"]
  /\ UNCHANGED <<m_head, kold, kprev, kpushed, kfailed, obtained, notQueue>>

\* push: one round of "while (!m_head.compare_exchange(old, item)) item->m_link = old;"
PushCas(t) ==
  /\ kpc[t] = "cas"
  /\ IF CasHeadSucceeds(m_head, kold[t])
       THEN /\ m_head' = kitem[t]
            /\ kpushed' = [kpushed EXCEPT ![t] = kpushed[t] + 1]
            /\ kpc' = [kpc EXCEPT ![t] = "idle"]
            /\ kold' = [kold EXCEPT ![t] = Null]
            /\ kitem' = [kitem EXCEPT ![t] = Null]
            /\ kfailed' = [kfailed EXCEPT ![t] = FALSE]
            /\ m_link' = m_link
       ELSE /\ kold' = [kold EXCEPT ![t] = m_head]
            /\ m_link' = [m_link EXCEPT ![kitem[t]] = Relink(kold[t], m_head)]
            /\ kfailed' = [kfailed EXCEPT ![t] = TRUE]
            /\ UNCHANGED <<m_head, kpushed, kpc, kitem>>
  /\ UNCHANGED <<item_data, free_items, kprev, obtained, notQueue>>

\* pop_all / apply -> reverse: "m_head.load() ? ... : nullptr": a null head ends
\* the drain with an empty result
DrainLoad(t) ==
  /\ kpc[t] = "idle"
  /\ kpc' = [kpc EXCEPT ![t] = IF m_head = Null THEN "idle" ELSE "exchange"]
  /\ UNCHANGED <<m_head, m_link, item_data, free_items, kold, kitem, kprev, kpushed, kfailed,
                 obtained, notQueue>>

\* reverse: "head = m_head.exchange(nullptr)"; a null result ends the drain, and so
\* does a chain of one item ("if (lf_item<T>* prev = head->m_link)" fails);
\* otherwise "head->m_link = nullptr" starts the reversal
DrainExchange(t) ==
  /\ kpc[t] = "exchange"
  /\ m_head' = ExchangeHead(m_head)
  /\ IF m_head = Null
       THEN /\ kpc' = [kpc EXCEPT ![t] = "idle"]
            /\ UNCHANGED <<kitem, kprev, m_link, obtained>>
       ELSE /\ kitem' = [kitem EXCEPT ![t] = m_head]
            /\ kprev' = [kprev EXCEPT ![t] = m_link[m_head]]
            /\ m_link' = [m_link EXCEPT ![m_head] = Null]
            /\ IF m_link[m_head] = Null
                 THEN /\ obtained' = Append(obtained, ChainOf(m_head, m_link'))
                      /\ kpc' = [kpc EXCEPT ![t] = "chain"]
                 ELSE /\ obtained' = obtained
                      /\ kpc' = [kpc EXCEPT ![t] = "reverse"]
  /\ UNCHANGED <<item_data, free_items, kold, kpushed, kfailed, notQueue>>

\* reverse: one round of "do { pprev = prev->m_link; prev->m_link = head;
\* head = std::exchange(prev, pprev); } while (prev);" and, at its end, "return head"
DrainReverse(t) ==
  /\ kpc[t] = "reverse"
  /\ m_link' = [m_link EXCEPT ![kprev[t]] = kitem[t]]
  /\ kitem' = [kitem EXCEPT ![t] = kprev[t]]
  /\ kprev' = [kprev EXCEPT ![t] = m_link[kprev[t]]]
  /\ IF m_link[kprev[t]] = Null
       THEN /\ obtained' = Append(obtained, ChainOf(kprev[t], m_link'))
            /\ kpc' = [kpc EXCEPT ![t] = "chain"]
       ELSE UNCHANGED <<obtained, kpc>>
  /\ UNCHANGED <<m_head, item_data, free_items, kold, kpushed, kfailed, notQueue>>

\* apply: one round of "for (ptr(reverse()); ptr; ptr = ptr->pop_all(), count++)
\* func(ptr->m_data);": the first item of the chain is unlinked and deleted
ApplyNext(t) ==
  /\ kpc[t] = "chain"
  /\ kitem' = [kitem EXCEPT ![t] = m_link[kitem[t]]]
  /\ m_link' = [m_link EXCEPT ![kitem[t]] = Null]
  /\ item_data' = [item_data EXCEPT ![kitem[t]] = DefaultT]
  /\ free_items' = free_items \cup {kitem[t]}
  /\ kpc' = [kpc EXCEPT ![t] = IF m_link[kitem[t]] = Null THEN "idle" ELSE "chain"]
  /\ UNCHANGED <<m_head, kold, kprev, kpushed, kfailed, obtained, notQueue>>

\* the holder of the chain drops its std::unique_ptr (the result of pop_all, or
\* the rest of the chain when func throws in apply): ~lf_item deletes the chain
PopAllDrop(t) ==
  /\ kpc[t] = "chain"
  /\ free_items' = free_items \cup ChainItems(kitem[t], m_link)
  /\ m_link' = [n \in Items |-> IF n \in ChainItems(kitem[t], m_link) THEN Null ELSE m_link[n]]
  /\ item_data' = [n \in Items |->
                     IF n \in ChainItems(kitem[t], m_link) THEN DefaultT ELSE item_data[n]]
  /\ kitem' = [kitem EXCEPT ![t] = Null]
  /\ kpc' = [kpc EXCEPT ![t] = "idle"]
  /\ UNCHANGED <<m_head, kold, kprev, kpushed, kfailed, obtained, notQueue>>

(***************************************************************************)
(* lf_value                                                                *)
(* Node 0 is the lf_value object itself (the cell); nodes 1, 2, ... are    *)
(* created by "new lf_value" in assign and live until the destructor.      *)
(***************************************************************************)
\* number of assign calls in a run, by all threads together
MaxAssigns == 3

\* the cell
Cell == 0
Nodes == 0..MaxAssigns

\* the value given at construction, and the value of the k-th assign
FirstValue == 0
AssignValue(k) == k

\* get reading the cell's own m_data
GetOwnData(head) == Cell

\* get: "m_head.load()->m_data": the node whose m_data is read
GetNode(head) == head

\* destructor that leaves the m_head of the node it deletes in place
KeepLink(ptr, next) == next

\* destructor: "std::exchange(ptr->m_head.raw(), ptr)": the node's m_head is set
\* to the node itself before it is deleted
SelfLink(ptr, next) == ptr

\* what "delete ptr" frees besides ptr: ~lf_value of the node walks from its
\* m_head until it meets the node itself ("ptr != this"), deleting on its way
RECURSIVE NestedFrees(_, _, _, _)
NestedFrees(ptr, this, prev, fuel) ==
  IF ptr = this \/ fuel = 0 THEN <<>>
  ELSE <<ptr>> \o NestedFrees(prev[ptr], this, prev, fuel - 1)

ValueInit ==
  /\ val_head = Cell
  /\ val_prev = [n \in Nodes |-> Cell]
  /\ val_data = [n \in Nodes |-> IF n = Cell THEN FirstValue ELSE DefaultT]
  /\ val_alloc = 0
  /\ vpc = [t \in Threads |-> "idle"]
  /\ vval = [t \in Threads |-> Null]
  /\ vold = [t \in Threads |-> Null]
  /\ vres = [t \in Threads |-> [op |-> "none", value |-> 0, expect |-> 0]]
  /\ dpc = "alive"
  /\ dptr = Null
  /\ freed = <<>>
  /\ cas_order = <<>>

\* the value of the assign whose head CAS succeeded last
LatestValue ==
  IF cas_order = <<>> THEN FirstValue ELSE val_data[cas_order[Len(cas_order)]]

\* assign: "val = new lf_value(args...); old = m_head.load();" and the first
\* "val->m_head = old" of the loop
AssignBegin(t) ==
  /\ dpc = "alive"
  /\ vpc[t] = "idle"
  /\ val_alloc < MaxAssigns
  /\ val_alloc' = val_alloc + 1
  /\ val_data' = [val_data EXCEPT ![val_alloc + 1] = AssignValue(val_alloc + 1)]
  /\ val_prev' = [val_prev EXCEPT ![val_alloc + 1] = val_head]
  /\ vval' = [vval EXCEPT ![t] = val_alloc + 1]
  /\ vold' = [vold EXCEPT ![t] = val_head]
  /\ vpc' = [vpc EXCEPT ![t] = "cas"]
  /\ UNCHANGED <<val_head, vres, dpc, dptr, freed, cas_order, notValue>>

\* assign: "while (!m_head.compare_exchange(old, val))": a failed CAS stores the
\* head it found into old, and the loop body "val->m_head = old" runs again;
\* after a successful CAS "return val->m_data"
AssignCas(t) ==
  /\ vpc[t] = "cas"
  /\ IF val_head = vold[t]
       THEN /\ val_head' = vval[t]
            /\ cas_order' = Append(cas_order, vval[t])
            /\ vres' = [vres EXCEPT ![t] = [op |-> "assign", value |-> val_data[vval[t]],
                                            expect |-> val_data[vval[t]]]]
            /\ vpc' = [vpc EXCEPT ![t] = "idle"]
            /\ vval' = [vval EXCEPT ![t] = Null]
            /\ vold' = [vold EXCEPT ![t] = Null]
            /\ val_prev' = val_prev
       ELSE /\ vold' = [vold EXCEPT ![t] = val_head]
            /\ val_prev' = [val_prev EXCEPT ![vval[t]] = val_head]
            /\ UNCHANGED <<val_head, cas_order, vres, vpc, vval>>
  /\ UNCHANGED <<val_data, val_alloc, dpc, dptr, freed, notValue>>

\* get: "m_head.load()"
GetLoad(t) ==
  /\ dpc = "alive"
  /\ vpc[t] = "idle"
  /\ vold' = [vold EXCEPT ![t] = val_head]
  /\ vres' = [vres EXCEPT ![t] = [op |-> "none", value |-> 0, expect |-> LatestValue]]
  /\ vpc' = [vpc EXCEPT ![t] = "get"]
  /\ UNCHANGED <<val_head, val_prev, val_data, val_alloc, vval, dpc, dptr, freed,
                 cas_order, notValue>>

\* get: "->m_data" of the node that was loaded
GetRead(t) ==
  /\ vpc[t] = "get"
  /\ vres' = [vres EXCEPT ![t] = [op |-> "get", value |-> val_data[GetNode(vold[t])],
                                  expect |-> vres[t].expect]]
  /\ vold' = [vold EXCEPT ![t] = Null]
  /\ vpc' = [vpc EXCEPT ![t] = "idle"]
  /\ UNCHANGED <<val_head, val_prev, val_data, val_alloc, vval, dpc, dptr, freed,
                 cas_order, notValue>>

\* first: "return m_data"
First(t) ==
  /\ dpc = "alive"
  /\ vpc[t] = "idle"
  /\ vres' = [vres EXCEPT ![t] = [op |-> "first", value |-> val_data[Cell],
                                  expect |-> FirstValue]]
  /\ UNCHANGED <<val_head, val_prev, val_data, val_alloc, vpc, vval, vold, dpc, dptr,
                 freed, cas_order, notValue>>

\* ~lf_value, once no thread uses the object any more: "ptr = m_head.load()"
DestroyBegin ==
  /\ dpc = "alive"
  /\ \A t \in Threads : vpc[t] = "idle"
  /\ dptr' = val_head
  /\ dpc' = "walk"
  /\ UNCHANGED <<val_head, val_prev, val_data, val_alloc, vpc, vval, vold, vres, freed,
                 cas_order, notValue>>

\* ~lf_value: one round of "for (...; ptr != this;) delete std::exchange(ptr,
\* std::exchange(ptr->m_head.raw(), ptr));", and the end of the loop
DestroyStep ==
  /\ dpc = "walk"
  /\ IF dptr = Cell
       THEN /\ dpc' = "done"
            /\ UNCHANGED <<dptr, val_prev, freed>>
       ELSE /\ val_prev' = [val_prev EXCEPT ![dptr] = SelfLink(dptr, val_prev[dptr])]
            /\ freed' = freed \o <<dptr>> \o
                          NestedFrees(val_prev'[dptr], dptr, val_prev', MaxAssigns + 1)
            /\ dptr' = val_prev[dptr]
            /\ dpc' = dpc
  /\ UNCHANGED <<val_head, val_data, val_alloc, vpc, vval, vold, vres, cas_order, notValue>>

\* the initial state of the containers that a ring run leaves alone
NotRingInit == ArrayInit /\ HashInit /\ FifoInit /\ QueueInit /\ ValueInit

(***************************************************************************)
(* Specifications                                                          *)
(***************************************************************************)
InitSpsc == RingInit /\ ConsInit /\ ProdInit /\ MpscInit /\ NotRingInit

NextSpsc ==
  \/ TryPushBegin
  \/ TryPushCheck
  \/ TryPushWrite
  \/ TryPushCommit
  \/ GetPushPtrBegin
  \/ GetPushPtrCheck
  \/ GetPushPtrStore
  \/ EndPushBegin
  \/ EndPushCheck
  \/ EndPushCommit
  \/ TryPopBegin
  \/ TryPopCheck
  \/ TryPopRead
  \/ TryPopCommit
  \/ PeekFront
  \/ EndPopBegin
  \/ EndPopCheck

SpecSpsc == InitSpsc /\ [][NextSpsc]_vars

\* the consumer of the lf_mpsc run: try_pop, called a bounded number of times
MpscTryPopBegin == Len(popped) < MaxPops /\ TryPopBegin

InitMpsc == RingInit /\ ConsInit /\ ProdInit /\ MpscInit /\ NotRingInit

NextMpsc ==
  \/ \E t \in Producers : Reserve(t)
  \/ \E t \in Producers : ReserveReadPush(t)
  \/ \E t \in Producers : ReserveCheck(t)
  \/ \E t \in Producers : ReserveRollback(t)
  \/ \E t \in Producers : PushStore(t)
  \/ \E t \in Producers : EndPush(t)
  \/ \E t \in Producers : ReleaseReadPush(t)
  \/ \E t \in Producers : ReleaseWritePush(t)
  \/ \E t \in Producers : ReleaseCas(t)
  \/ \E t \in Producers : PushReturn(t)
  \/ MpscTryPopBegin
  \/ TryPopCheck
  \/ TryPopRead
  \/ TryPopCommit

SpecMpsc == InitMpsc /\ [][NextMpsc]_vars

InitArray == RingInit /\ ConsInit /\ ProdInit /\ MpscInit /\ NotRingInit

NextArray ==
  \/ \E t \in Threads, index \in 0..MaxIndex : ArrayCall(t, index)
  \/ \E t \in Threads : ArrayEnter(t, ArrN)
  \/ \E t \in Threads : ArrayInstall(t)
  \/ \E t \in Threads : ArrayDeref(t, ArrN)
  \/ \E t \in Threads : ArrayReturn(t)

SpecArray == InitArray /\ [][NextArray]_vars

\* a thread inside operator [] keeps running: the next step of its call (at most
\* one is possible at a time) is taken eventually
ArrayStep(t) ==
  ArrayEnter(t, ArrN) \/ ArrayInstall(t) \/ ArrayDeref(t, ArrN) \/ ArrayReturn(t)

ArrayFairness == \A t \in Threads : WF_vars(ArrayStep(t))

SpecArrayFair == InitArray /\ [][NextArray]_vars /\ ArrayFairness

InitHashmap == RingInit /\ ConsInit /\ ProdInit /\ MpscInit /\ NotRingInit

NextHashmap ==
  \/ \E t \in Threads, key \in Keys : HashCall(t, key)
  \/ \E t \in Threads : HashCheckKey(t)
  \/ \E t \in Threads : HashCasKey(t)

SpecHashmap == InitHashmap /\ [][NextHashmap]_vars

InitFifo == RingInit /\ ConsInit /\ ProdInit /\ MpscInit /\ NotRingInit

NextFifo ==
  \/ \E count \in Counts : PushBegin(count)
  \/ \E count \in Counts : PopEnd(count)

SpecFifo == InitFifo /\ [][NextFifo]_vars

InitQueue == RingInit /\ ConsInit /\ ProdInit /\ MpscInit /\ NotRingInit

NextQueue ==
  \/ \E t \in Threads : PushLoad(t)
  \/ \E t \in Threads, n \in Items : PushAlloc(t, n)
  \/ \E t \in Threads : PushCas(t)
  \/ \E t \in Threads : DrainLoad(t)
  \/ \E t \in Threads : DrainExchange(t)
  \/ \E t \in Threads : DrainReverse(t)
  \/ \E t \in Threads : ApplyNext(t)
  \/ \E t \in Threads : PopAllDrop(t)

SpecQueue == InitQueue /\ [][NextQueue]_vars

\* the steps of thread t inside push: each thread is scheduled again and again
PushStep(t) == (\E n \in Items : PushAlloc(t, n)) \/ PushCas(t)
QueueFairness == \A t \in Threads : WF_vars(PushStep(t))

SpecQueueFair == InitQueue /\ [][NextQueue]_vars /\ QueueFairness

InitValue == RingInit /\ ConsInit /\ ProdInit /\ MpscInit /\ NotRingInit

NextValue ==
  \/ \E t \in Threads : AssignBegin(t)
  \/ \E t \in Threads : AssignCas(t)
  \/ \E t \in Threads : GetLoad(t)
  \/ \E t \in Threads : GetRead(t)
  \/ \E t \in Threads : First(t)
  \/ DestroyBegin
  \/ DestroyStep

SpecValue == InitValue /\ [][NextValue]_vars

\* the destructor, once begun, runs on
SpecValueFair == InitValue /\ [][NextValue]_vars /\ WF_vars(DestroyStep)

(***************************************************************************)
(* Claims                                                                  *)
(***************************************************************************)
\* the elements of a sequence, and how often a value occurs in it
Range(seq) == {seq[i] : i \in 1..Len(seq)}
Count(seq, v) == Cardinality({i \in 1..Len(seq) : seq[i] = v})

ProducersFinished == \A t \in Producers : qpc[t] = "idle" /\ qdone[t] = PerProducer
RingDrained == cpc = "idle" /\ m_push = m_pop

\* C1: lf_mpsc, T producers pushing M distinct values each and one consumer: once
\* all producers have finished and the ring is drained, the values popped are
\* exactly the values whose try_push returned true, T*M of them, each popped once,
\* and no value is popped that was never pushed.
MpscDeliversExactlyOnce ==
  (ProducersFinished /\ RingDrained) =>
    /\ Len(popped) = NumProducers * PerProducer
    /\ Range(popped) = accepted
    /\ \A v \in accepted : Count(popped, v) = 1

\* C3: lf_spsc, one producer and one consumer: the sequence of values returned by
\* successful pops is always a prefix of the sequence of values accepted by
\* successful pushes.
SpscFifoPrefix ==
  /\ Len(popped) <= Len(pushed)
  /\ \A i \in 1..Len(popped) : popped[i] = pushed[i]

\* C3 witness: more values than the ring has slots were popped, in order, with a
\* further accepted value still waiting in the ring
SpscFifoWitness ==
  /\ Len(popped) > RingN
  /\ Len(pushed) > Len(popped)
  /\ cres = "true"

\* the step in which try_push / try_pop compares the cursors
PushCheckStep == ppc = "tp_check" /\ ppc' # "tp_check"
PopCheckStep == cpc = "pop_check" /\ cpc' # "pop_check"

\* C4: lf_spsc: try_push returns false, leaving cursors and slots unchanged, if and
\* only if push - pop equals N at its check; try_pop returns false, leaving cursors,
\* slots and the output argument unchanged, if and only if push - pop equals 0 at
\* its check; otherwise each goes on to succeed; push - pop is always within 0..N.
SpscFailsExactlyWhenFullOrEmpty ==
  /\ [](size \in 0..RingN)
  /\ [][/\ PushCheckStep =>
             /\ (pres' = "false") <=> (size = RingN)
             /\ IF size = RingN
                  THEN ppc' = "idle" /\ UNCHANGED <<ringVars, pushed>>
                  ELSE ppc' = "tp_write"
        /\ PopCheckStep =>
             /\ (cres' = "false") <=> (size = 0)
             /\ IF size = 0
                  THEN cpc' = "idle" /\ UNCHANGED <<ringVars, cout, popped>>
                  ELSE cpc' = "pop_read"
        /\ (ppc = "tp_commit" /\ ppc' = "idle") => pres' = "true"
        /\ (cpc = "pop_commit" /\ cpc' = "idle") => cres' = "true"]_vars

\* C4 witness: a try_push has failed on the full ring and a try_pop has failed on
\* the ring emptied afterwards
SpscFailsWitness ==
  /\ pres = "false"
  /\ cres = "false"
  /\ Len(popped) = RingN
  /\ size = 0
\* the block reached from the lf_array object by following m_next `depth` times
RECURSIVE BlockAt(_)
BlockAt(depth) ==
  IF depth = 0 THEN 0
  ELSE IF BlockAt(depth - 1) = Null THEN Null ELSE m_next[BlockAt(depth - 1)]

\* the references that callers of lf_hashmap::operator [] hold: <<key, reference>>
Returned == {<<hkey[t], href[t]>> : t \in {u \in Threads : hpc[u] = "idle" /\ href[u] # Null}}

\* C2: lf_hashmap: for every non-default key K, under every interleaving of
\* operator [] calls, every call with key K returns the value of the same slot; at
\* most one slot of the table ever holds key K.
HashOneSlotPerKey ==
  /\ \A key \in Keys \ {DefaultKey} :
       Cardinality({e \in Pairs : pair_key[e] = key}) <= 1
  /\ \A r1, r2 \in Returned : r1[1] = r2[1] => r1[2] = r2[2]

\* the element references that callers of lf_array::operator [] hold: <<index,
\* block, slot>>
Resolved ==
  {<<aidx[t], aret[t][1], aret[t][2]>> : t \in {u \in Threads : apc[u] = "idle" /\ aret[u] # NoRef}}

\* C9: lf_array: operator [](i) returns slot i % N of the block at depth i / N of
\* the chain, the same element for every call with index i at any time and a
\* different element for a different index; a block's next link, once set from
\* null, is never changed.
ArrayIndexResolvesToStableElement ==
  /\ [](/\ \A r \in Resolved :
             /\ r[3] = r[1] % ArrN
             /\ r[2] = BlockAt(r[1] \div ArrN)
        /\ \A r1, r2 \in Resolved :
             (r1[1] = r2[1]) <=> (r1[2] = r2[2] /\ r1[3] = r2[3]))
  /\ [][\A b \in DOMAIN m_next : m_next[b] # Null => m_next'[b] = m_next[b]]_vars

\* C9 witness: a caller holds an element beyond the first block while a thread
\* whose first CAS lost is installing its block further down the chain
ArrayGrowthRaceWitness ==
  /\ \E r \in Resolved : r[1] >= ArrN
  /\ \E t \in Threads : apc[t] = "install" /\ aptr[t] # acur[t]

\* the number of blocks of the chain, the lf_array object included
RECURSIVE ChainLenFrom(_)
ChainLenFrom(b) == IF m_next[b] = Null THEN 1 ELSE 1 + ChainLenFrom(m_next[b])
ChainLen == ChainLenFrom(0)

CeilDiv(a, b) == (a + b - 1) \div b

\* every operator [] call made so far has returned
ArrayCallsCompleted == \A t \in Threads : apc[t] = "idle"

\* C11 (original statement): lf_array: after T threads have completed operator []
\* calls covering indices 0..M, the chain has at least ceil(M/N) and at most
\* ceil(M/N) + T - 1 blocks.
ArrayBlockCountCeil ==
  ArrayCallsCompleted =>
    /\ ChainLen >= CeilDiv(amax, ArrN)
    /\ ChainLen <= CeilDiv(amax, ArrN) + NumThreads - 1

\* C11 (amended statement): lf_array: after T threads have completed operator []
\* calls covering indices 0..M, the chain, the lf_array object included, has at
\* least floor(M/N) + 1 and at most floor(M/N) + T blocks; the upper bound holds
\* at any time for the largest index M a call has been made with.
ArrayBlockCountFloor ==
  /\ ChainLen <= (amax \div ArrN) + NumThreads
  /\ ArrayCallsCompleted => ChainLen >= (amax \div ArrN) + 1
  /\ \A r \in Resolved : ChainLen >= (r[1] \div ArrN) + 1

\* C11 witness: all calls have returned, the chain was grown and every thread has
\* contributed a block in one race, so that the chain is as long as it can get
ArrayOverAllocationWitness ==
  /\ ArrayCallsCompleted
  /\ amax >= ArrN
  /\ ChainLen = (amax \div ArrN) + NumThreads
  /\ \E r \in Resolved : r[1] = amax

\* the blocks created by "new lf_array" so far, the blocks of the chain, and the
\* blocks that a thread in the install loop has created and not linked yet
AllocatedBlocks == 1..nalloc
ChainBlocks == {BlockAt(d) : d \in 0..(nalloc + 1)} \ {Null}
PendingBlocks == {anew[t] : t \in {u \in Threads : apc[u] = "install"}}

\* every created block is in the chain, with exactly one block pointing to it, or
\* is still being installed by the one call that created it; the chain ends
AllocatedBlocksLinkedOnce ==
  /\ BlockAt(nalloc + 1) = Null
  /\ ChainBlocks \cup PendingBlocks = {0} \cup AllocatedBlocks
  /\ ChainBlocks \cap PendingBlocks = {}
  /\ \A b \in AllocatedBlocks :
       /\ Cardinality({p \in DOMAIN m_next : m_next[p] = b}) = (IF b \in ChainBlocks THEN 1 ELSE 0)
       /\ Cardinality({t \in Threads : apc[t] = "install" /\ anew[t] = b}) =
            (IF b \in ChainBlocks THEN 0 ELSE 1)
  /\ \A p \in DOMAIN m_next : m_next[p] # 0 /\ m_next[p] # p

\* C13: lf_array growth: every block allocated by an operator [] call is linked
\* into the chain exactly once before the call returns, further down the chain
\* when its first CAS loses; the install loop terminates and the call returns; the
\* chain stays acyclic and no allocated block is left unreachable from the head.
ArrayGrowthLinksEveryBlock ==
  /\ []AllocatedBlocksLinkedOnce
  /\ \A t \in Threads : (apc[t] # "idle") ~> (apc[t] = "idle")

\* C13 witness: a call whose first CAS lost has installed its block further down
\* the chain, behind the block of the call that won, and has returned
ArrayLateInstallWitness ==
  /\ ArrayCallsCompleted
  /\ nalloc = NumThreads
  /\ ChainBlocks = {0} \cup AllocatedBlocks
  /\ ChainLen = NumThreads + 1
  /\ amax \div ArrN = 1

\* C10: lf_hashmap: two distinct non-default keys with the same initial probe
\* position Hash(key) % Size resolve to different slots, at positions p + k * Size,
\* and a value written through the reference of one key is never seen through the
\* reference of the other: each reference shows the value of its own key.
HashCollidingKeysKeepApart ==
  /\ \A r1, r2 \in Returned : r1[1] # r2[1] => r1[2] # r2[2]
  /\ \A r \in Returned :
       IF r[1] = DefaultKey
         THEN r[2] = DefaultRef /\ m_default_key_data = ValueFor(r[1])
         ELSE /\ r[2] \in Pairs
              /\ r[2] % HashSize = Hash(r[1]) % HashSize
              /\ pair_key[r[2]] = r[1]
              /\ pair_value[r[2]] = ValueFor(r[1])
  /\ \A e \in Pairs : pair_value[e] \in {DefaultT, ValueFor(pair_key[e])}

\* C10 witness: callers hold the references of two distinct non-default keys of
\* the same initial probe position, the second at a later probe position
HashCollisionWitness ==
  \E r1, r2 \in Returned :
    /\ r1[1] # DefaultKey /\ r2[1] # DefaultKey /\ r1[1] # r2[1]
    /\ Hash(r1[1]) % HashSize = Hash(r2[1]) % HashSize
    /\ r2[2] = r1[2] + HashSize

\* the indices [r, r + count) of a range push_begin has handed out
IndicesOf(range) == {range[1] + k : k \in 0..(range[2] - 1)}

RECURSIVE CountSum(_)
CountSum(ranges) ==
  IF ranges = <<>> THEN 0 ELSE ranges[1][2] + CountSum(Tail(ranges))

\* the ranges are pairwise disjoint and together form exactly [0, total)
Partition(ranges, total) ==
  /\ \A i, j \in 1..Len(ranges) :
       i # j => IndicesOf(ranges[i]) \cap IndicesOf(ranges[j]) = {}
  /\ UNION {IndicesOf(ranges[i]) : i \in 1..Len(ranges)} = 0..(total - 1)

\* the ranges handed out since the last reset of the counters
Generation == SubSeq(granted, gen_start, Len(granted))

\* C7 as stated: lf_fifo: the index ranges [r, r + count) returned by all the
\* push_begin calls are pairwise disjoint and together form exactly [0,
\* total_pushed), total_pushed being the sum of all the counts passed to push_begin.
FifoAllRangesPartition == Partition(granted, CountSum(granted))

\* C7 as amended: lf_fifo: the index ranges returned by the push_begin calls made
\* since the last pop_end that reset the counters (or since construction) are
\* pairwise disjoint and together form exactly [0, n), n being the sum of the counts
\* passed to those calls and the value of the push counter, as long as n fits the
\* counter.
FifoGenerationRangesPartition ==
  CountSum(Generation) < Wrap =>
    /\ Partition(Generation, CountSum(Generation))
    /\ m_ctrl.push = CountSum(Generation)

\* C7 witness: after a reset, two further non-empty ranges have been handed out
FifoGenerationWitness ==
  /\ gen_start > 1
  /\ Len(granted) > gen_start
  /\ granted[gen_start][2] > 0
  /\ granted[gen_start + 1][2] > 0

\* what C8 says of a pop_end apart from when it returns 0, and of push_begin
PopEndAdvancesAndCleans ==
  /\ last_call.op = "pop_end" =>
       LET advanced == (last_call.before.pop + last_call.count) % Wrap
       IN  /\ last_call.cleaned <=> (advanced = last_call.before.push)
           /\ last_call.cleaned => m_ctrl = [push |-> 0, pop |-> 0]
           /\ ~last_call.cleaned =>
                /\ m_ctrl = [push |-> last_call.before.push, pop |-> advanced]
                /\ last_call.result = advanced
  /\ last_call.op = "push_begin" =>
       /\ m_ctrl.pop = last_call.before.pop
       /\ m_ctrl.push = (last_call.before.push + last_call.count) % Wrap
       /\ last_call.result = CountSum(SubSeq(Generation, 1, Len(Generation) - 1)) % Wrap
  /\ m_ctrl.push = CountSum(Generation) % Wrap

\* C8 as stated: lf_fifo::pop_end(count) adds count to pop and, in the same atomic
\* step, sets push and pop to zero exactly when the advanced pop equals push; it
\* returns 0 exactly when that reset took place and otherwise the advanced pop; no
\* push_begin is lost: each is counted in push before the comparison or after the
\* reset, where it returns an index counted from 0.
PopEndReturnsZeroIffCleaned ==
  /\ PopEndAdvancesAndCleans
  /\ last_call.op = "pop_end" => (last_call.result = 0 <=> last_call.cleaned)

\* C8 as amended: as stated, except that pop_end returns 0 whenever the reset took
\* place, and only then when count >= 1 and pop + count fits the counter.
PopEndReturnsZeroWhenCleaned ==
  /\ PopEndAdvancesAndCleans
  /\ last_call.op = "pop_end" =>
       /\ last_call.cleaned => last_call.result = 0
       /\ (last_call.count >= 1 /\ last_call.before.pop + last_call.count < Wrap) =>
            (last_call.result = 0 => last_call.cleaned)

\* C8 witness: a pop_end of at least one element has just caught up with a
\* non-zero push position and reset both counters
PopEndCleansWitness ==
  /\ last_call.op = "pop_end"
  /\ last_call.cleaned
  /\ last_call.count >= 1
  /\ last_call.before.push > 0
  /\ gen_start > 1

(***************************************************************************)
(* lf_queue                                                                *)
(***************************************************************************)
RECURSIVE Flatten(_)
Flatten(chains) == IF chains = <<>> THEN <<>> ELSE chains[1] \o Flatten(Tail(chains))

\* the payloads whose push has returned
Pushed == {Payload(t, k) : t \in Threads, k \in 1..MaxItems} \cap
          {v \in 1..(NumThreads * MaxItems) : SeqNoOf(v) <= kpushed[PusherOf(v)]}

\* the threads between the exchange in reverse and its return, and those holding
\* the chain that reverse returned
Reversing == {t \in Threads : kpc[t] = "reverse"}
HoldingChain == {t \in Threads : kpc[t] = "chain"}
Draining == {t \in Threads : kpc[t] = "exchange"} \cup Reversing

\* in a chain, the items of one pusher are in the order of its pushes, none missing
PushOrderKept(chain) ==
  \A i, j \in 1..Len(chain) :
    (/\ i < j
     /\ PusherOf(chain[i]) = PusherOf(chain[j])
     /\ \A m \in (i + 1)..(j - 1) : PusherOf(chain[m]) # PusherOf(chain[i]))
      => SeqNoOf(chain[j]) = SeqNoOf(chain[i]) + 1

\* C5: lf_queue, what a drain obtains is in push order: the items of each pushing
\* thread appear in the order that thread pushed them (so one thread's pushes come
\* out in exactly their order), and a single drain that takes the queue after all
\* pushes have completed obtains every pushed item once.
QueueKeepsPushOrder ==
  /\ \A i \in 1..Len(obtained) : PushOrderKept(obtained[i])
  /\ (AllPushed /\ Len(obtained) = 1 /\ m_head = Null /\ Reversing = {}) =>
       /\ Len(obtained[1]) = MaxItems
       /\ Range(obtained[1]) = Pushed

\* C5 witness: one drain, after all pushes completed, obtained the chain of all the
\* items, pushed by two threads, one of which pushed at least two
QueueOrderWitness ==
  /\ AllPushed
  /\ Len(obtained) = 1
  /\ Len(obtained[1]) = MaxItems
  /\ \E i, j, m \in 1..Len(obtained[1]) :
       /\ i < j
       /\ PusherOf(obtained[1][i]) = PusherOf(obtained[1][j])
       /\ PusherOf(obtained[1][m]) # PusherOf(obtained[1][i])

\* how often payload v is in a chain some drain obtained, in the chain pending at
\* the head, or in the two halves of a chain under reversal
Occurrences(v) ==
  Count(Flatten(obtained), v) + Count(ChainOf(m_head, m_link), v)
    + Count(Flatten([i \in 1..NumThreads |->
               IF i \in Reversing
                 THEN ChainOf(kitem[i], m_link) \o ChainOf(kprev[i], m_link)
                 ELSE <<>>]), v)

\* a drain that reads a null head (in the load or in the exchange) returns empty
\* and leaves the queue as it was
NullDrainStep ==
  \A t \in Threads :
    (/\ m_head = Null
     /\ DrainExchange(t) \/ DrainLoad(t))
      => /\ kpc'[t] = "idle"
         /\ UNCHANGED <<m_head, m_link, item_data, free_items, obtained>>

\* C6: lf_queue with concurrent drains: every pushed item is in the chain of exactly
\* one drain or still pending, never in two chains; a drain that observes a null
\* head returns empty and modifies nothing; once all pushes have completed and a
\* later drain has emptied the queue, every item has been delivered exactly once.
QueueDrainsPartitionItems ==
  /\ [](\A v \in Pushed : Occurrences(v) = 1)
  /\ [](\A v \in Range(Flatten(obtained)) : Count(Flatten(obtained), v) = 1)
  /\ [][NullDrainStep]_vars
  /\ []((AllPushed /\ m_head = Null /\ Draining = {}) =>
          /\ Range(Flatten(obtained)) = Pushed
          /\ Len(Flatten(obtained)) = MaxItems)

\* C6 witness: two threads hold the chains of two drains at the same time, and
\* a third drain has found the head null
QueueConcurrentDrainsWitness ==
  \E t, u \in HoldingChain :
    /\ t # u
    /\ Len(obtained) >= 2
    /\ m_head = Null
    /\ AllPushed

(***************************************************************************)
(* lf_value                                                                *)
(***************************************************************************)
\* C12: lf_value: get returns the value of the assign whose head CAS succeeded
\* most recently when get loaded the head (the constructor's value when there was
\* none), so after assign(v1); assign(v2) it yields v2; first returns the value
\* given at construction in every reachable state; assign returns its own value.
ValueGetReturnsLatest ==
  /\ \A t \in Threads : vres[t].op \in {"get", "first", "assign"} =>
                          vres[t].value = vres[t].expect
  /\ dpc = "alive" => val_data[val_head] = LatestValue
  /\ val_data[Cell] = FirstValue
  /\ \A i \in 1..Len(cas_order) : val_data[cas_order[i]] = AssignValue(cas_order[i])

\* C12 witness: two assigns raced, the one that started later won the head CAS
\* first, and a get after both returned the value of the loser, whose CAS came last
ValueGetAfterRaceWitness ==
  /\ Len(cas_order) = 2
  /\ cas_order[1] > cas_order[2]
  /\ \E t \in Threads :
       /\ vres[t].op = "get"
       /\ vres[t].value = AssignValue(cas_order[2])
  /\ \A t \in Threads : vpc[t] = "idle"

\* the nodes met by following the m_head pointers from node ptr up to the cell
RECURSIVE HistoryFrom(_, _)
HistoryFrom(ptr, fuel) ==
  IF ptr = Cell \/ fuel = 0 THEN <<>> ELSE <<ptr>> \o HistoryFrom(val_prev[ptr], fuel - 1)

\* the walk from node ptr reaches the cell
RECURSIVE ReachesCell(_, _)
ReachesCell(ptr, fuel) ==
  IF ptr = Cell THEN TRUE
  ELSE IF fuel = 0 THEN FALSE ELSE ReachesCell(val_prev[ptr], fuel - 1)

Reverse(seq) == [i \in 1..Len(seq) |-> seq[Len(seq) + 1 - i]]

\* C19: lf_value: following the m_head pointers from the head visits exactly the k
\* heap nodes of the k assigns whose CAS succeeded, in reverse order of those
\* CASes, and then reaches the cell; the destructor frees each of these nodes
\* exactly once, in that order, never the cell, and ends when it reaches the cell.
ValueHistoryAndDestruction ==
  /\ [](dpc = "alive" =>
          /\ ReachesCell(val_head, MaxAssigns + 1)
          /\ HistoryFrom(val_head, MaxAssigns + 1) = Reverse(cas_order))
  /\ [](dpc # "alive" =>
          /\ Len(cas_order) = val_alloc
          /\ ReachesCell(dptr, MaxAssigns + 1)
          /\ freed \o HistoryFrom(dptr, MaxAssigns + 1) = Reverse(cas_order)
          /\ \A n \in Nodes : Count(freed, n) = (IF n \in Range(cas_order) THEN
                                                   IF n \in Range(freed) THEN 1 ELSE 0
                                                 ELSE 0)
          /\ Cell \notin Range(freed))
  /\ [](dpc = "done" => dptr = Cell /\ freed = Reverse(cas_order))
  /\ (dpc = "walk") ~> (dpc = "done")

\* C19 witness: the destructor has freed the nodes of three assigns, two of which
\* raced so that their CAS order is not the order in which they were created
ValueDestroyedWitness ==
  /\ dpc = "done"
  /\ Len(freed) = MaxAssigns
  /\ \E i \in 1..(Len(cas_order) - 1) : cas_order[i] > cas_order[i + 1]

(***************************************************************************)
(* lf_mpsc                                                                 *)
(***************************************************************************)
\* the producers that hold a slot pointer from operator T* and have not called
\* end_push yet
Holders == {t \in Producers : qpc[t] \in {"store", "end_push"}}

\* the producers inside release after their end_push, and the number of end_push
\* calls whose add_fetch(c_rel) has taken place
InEndPush ==
  {t \in Producers : qpc[t] \in {"rel_read", "rel_write", "rel_cas", "return"} /\ qret[t] = "true"}
RECURSIVE SumDone(_)
SumDone(t) == IF t = 0 THEN 0 ELSE qdone[t] + SumDone(t - 1)
EndPushCalls == SumDone(NumProducers) + Cardinality(InEndPush)

\* no producer is inside a call
ProducersIdle == \A t \in Producers : qpc[t] = "idle"

\* the slots the consumer can see: [pop, push) mod N
VisibleSlots == {Slot(UAdd(m_pop, i)) : i \in 0..(size - 1)}

\* C14: lf_mpsc: the push cursor has never been advanced by more than the number
\* of end_push calls made so far, and by exactly that number whenever the
\* reservation word is zero and no producer is inside a call (nothing popped yet,
\* so that the cursor is the amount it was advanced by).
MpscCursorCountsEndPushes ==
  m_pop = 0 =>
    /\ m_push <= EndPushCalls
    /\ (m_lock = 0 /\ ProducersIdle) => m_push = EndPushCalls

\* C15: lf_mpsc: a reservation succeeds only if the committed elements plus the
\* reservations already outstanding are fewer than N, so that committed elements
\* plus outstanding successful reservations never exceed N, and size() never
\* exceeds N.
MpscCapacityRespected ==
  /\ size <= RingN
  /\ size + Cardinality(Holders) <= RingN

\* C16: lf_mpsc: the release count (high half of m_lock) never exceeds the ack
\* count (low half), also during failed reservations and across resets.
MpscRelNeverExceedsAck == RelOf(m_lock) <= AckOf(m_lock)

\* a failed reservation sits between its ack increment and its roll-back while an
\* earlier write is released and not yet committed, after the word was reset once
MpscRollbackPendingWitness ==
  \E t \in Producers :
    /\ qpc[t] = "rollback"
    /\ RelOf(m_lock) > 0
    /\ AckOf(m_lock) > RelOf(m_lock)
    /\ accepted # {}

\* C20: lf_mpsc: two producers holding a slot pointer hold different slots, and
\* no held slot is in the range [pop, push) the consumer can see.
MpscSlotsExclusive ==
  /\ \A t, u \in Holders : t # u => qptr[t] # qptr[u]
  /\ \A t \in Holders : qptr[t] \notin VisibleSlots

(***************************************************************************)
(* lf_spsc: the cursors across the wrap                                    *)
(***************************************************************************)
\* the values accepted and not yet popped, oldest first
Stored == SubSeq(pushed, Len(popped) + 1, Len(pushed))

\* the slots size() counts, read through operator [](i), oldest first
RingContents == [i \in 1..size |-> m_data[Slot(UAdd(m_pop, i - 1))]]

\* C17: lf_spsc with w-bit cursors and N dividing 2^w: also after a cursor has
\* passed 2^w - 1, size() is the number of values stored (0..N), each cursor
\* taken mod N is the slot of the next push / pop in round-robin order, and the
\* ring holds the stored values in push order, so pops continue the FIFO order.
SpscCursorsWrapCorrectly ==
  /\ size = Len(pushed) - Len(popped)
  /\ size \in 0..RingN
  /\ m_push = Len(pushed) % Wrap
  /\ m_pop = Len(popped) % Wrap
  /\ Slot(m_push) = Len(pushed) % RingN
  /\ Slot(m_pop) = Len(popped) % RingN
  /\ RingContents = Stored
  /\ popped = SubSeq(pushed, 1, Len(popped))

\* the push cursor has wrapped, the pop cursor has not, and the ring is full
SpscWrappedWitness ==
  /\ Len(pushed) >= Wrap
  /\ m_push < m_pop
  /\ size = RingN
  /\ Len(popped) > 0

(***************************************************************************)
(* lf_queue: push is lock-free                                             *)
(***************************************************************************)
\* thread t is inside push
Pushing(t) == kpc[t] \in {"alloc", "cas"}

\* one round of the CAS loop of push by thread t: it succeeds exactly when the head
\* is the one t observed last; then the item is the head and is linked to the old
\* head; otherwise the head is left alone and the item is linked to the head found
PushCasRound(t) ==
  PushCas(t) =>
    IF m_head = kold[t]
      THEN /\ m_head' = kitem[t]
           /\ m_link'[kitem[t]] = m_head
           /\ kpc'[t] = "idle"
      ELSE /\ m_head' = m_head
           /\ kold'[t] = m_head
           /\ m_link'[kitem[t]] = m_head
           /\ kpc'[t] = "cas"

\* while thread t stays where it is inside push, the head it observed last stops
\* being the head only in a step in which another thread's push CAS succeeds or
\* another thread's drain exchanges the head
HeadStaleOnlyByOthers(t) ==
  (Pushing(t) /\ kold[t] = m_head /\ kpc'[t] = kpc[t] /\ m_head' # m_head) =>
    \E u \in Threads \ {t} : PushCas(u) \/ DrainExchange(u)

\* C18: lf_queue::push: the head CAS fails only when the head is no longer the one
\* the push observed last, which only another thread's completed push or drain
\* brings about; a failed round links the item to the head it found; and under
\* fair scheduling every push returns, its item being the head when it does.
QueuePushLockFree ==
  /\ [][\A t \in Threads : PushCasRound(t) /\ HeadStaleOnlyByOthers(t)]_vars
  /\ \A t \in Threads : Pushing(t) ~> (kpc[t] = "idle")

\* a push whose CAS failed has linked its item to the head another push installed
\* and is about to succeed
QueuePushRetryWitness ==
  \E t \in Threads :
    /\ kpc[t] = "cas"
    /\ kfailed[t]
    /\ m_head # Null
    /\ m_head = kold[t]
    /\ m_link[kitem[t]] = m_head

====
